---- MODULE Spec2Model ----
(***************************************************************************)
(* Model of bloog (src/main.go): the front-matter parser, the corpus       *)
(* loader, the sidebar (navigation) builder and the startup / serving      *)
(* life cycle of main.                                                     *)
(*                                                                         *)
(* Text is a sequence of symbols.  A symbol is one character ("-", ":",    *)
(* " ", LF, CR, "#", a digit) or a fixed non-empty run of word characters  *)
(* that is never split ("Title", "Slug", "A", "s1", ...).                  *)
(***************************************************************************)
EXTENDS Integers, Sequences, FiniteSets, TLC

LF == "\n"
CR == "\r"

\* ---------------------------------------------------------------- bounds
MaxFiles == 3
MaxPages == 2
MaxChanges == 1
MaxLen == 6
MaxMetaLen == 6

\* ------------------------------------------------------ character classes
Digits == {"0", "1", "5", "9"}
DigitVal(c) == CASE c = "0" -> 0 [] c = "1" -> 1 [] c = "5" -> 5 [] OTHER -> 9

\* \w of the regular expressions: letters, digits, underscore
MetaKeys == {"Title", "Slug", "Parent", "Description", "Order",
             "MetaDescription", "MetaPropertyTitle",
             "MetaPropertyDescription", "MetaOgURL"}
WordSyms == MetaKeys \cup Digits
              \cup {"A", "B", "C", "s1", "s2", "index", "x", "v", "t", "h"}
\* \s of the regular expressions
SpaceSyms == {" ", LF, CR}

\* ------------------------------------------------------------ strings
Slice(s, a, b) == [k \in 1..(b - a + 1) |-> s[a + k - 1]]

\* strings.HasSuffix(name, ".md"): the name's last symbol is the extension
HasSuffixMd(name) == Len(name) >= 1 /\ name[Len(name)] = ".md"

\* strings.ReplaceAll(s, "\r", "")
StripCR(s) == SelectSeq(s, LAMBDA c : c # CR)

\* positions at which the token --- starts in s
DashAt(s, i) == /\ i + 2 <= Len(s)
                /\ s[i] = "-" /\ s[i + 1] = "-" /\ s[i + 2] = "-"
DashStarts(s) == {i \in 1..Len(s) : DashAt(s, i)}
Min(S) == CHOOSE m \in S : \A k \in S : m <= k
Max(S) == CHOOSE m \in S : \A k \in S : m >= k

\* strings.SplitN(s, "---", 2)
SplitAt(s, i) == <<Slice(s, 1, i - 1), Slice(s, i + 3, Len(s))>>
\* variant: splits at the last occurrence of the token
SplitNLast(s) ==
    IF DashStarts(s) = {} THEN <<s>> ELSE SplitAt(s, Max(DashStarts(s)))
SplitN2(s) ==
    IF DashStarts(s) = {} THEN <<s>> ELSE SplitAt(s, Min(DashStarts(s)))

\* ------------------------------------------------------ regular expressions
\* length of the longest run of symbols of class S that starts at position p
RECURSIVE RunLen(_, _, _)
RunLen(s, p, S) ==
    IF p <= Len(s) /\ s[p] \in S THEN 1 + RunLen(s, p + 1, S) ELSE 0

\* the class of '.': every character but the line feed
Range(s) == {s[i] : i \in 1..Len(s)}
Dot(s) == Range(s) \ {LF}
LineStart(s, p) == p = 1 \/ (p > 1 /\ p <= Len(s) + 1 /\ s[p - 1] = LF)

\* (?m)^(\w+):\s*(.+) tried at position p.  \w+ takes the whole word run and
\* must be followed by ':'.  \s* is greedy and crosses line feeds; it gives
\* characters back only as far as needed for .+ to take one non-LF character.
\* The result is <<key, value, end>> or <<>> when there is no match at p.
\* w: length of the word run at p; gaps: the lengths \s* can take; v: where
\* the value starts; n: its length
MetaGaps(s, a) == {k \in 0..RunLen(s, a, SpaceSyms) :
                      a + k <= Len(s) /\ s[a + k] # LF}
MetaValue(s, p, w, v, n) ==
    <<Slice(s, p, p + w - 1), Slice(s, v, v + n - 1), v + n>>
MetaAfterColon(s, p, w, gaps) ==
    IF gaps = {} THEN <<>>
    ELSE MetaValue(s, p, w, p + w + 1 + Max(gaps),
                   RunLen(s, p + w + 1 + Max(gaps), Dot(s)))
MetaAfterWord(s, p, w) ==
    IF w = 0 \/ p + w > Len(s) THEN <<>>
    ELSE IF s[p + w] # ":" THEN <<>>
    ELSE MetaAfterColon(s, p, w, MetaGaps(s, p + w + 1))
MetaMatchAt(s, p) ==
    IF ~LineStart(s, p) THEN <<>>
    ELSE MetaAfterWord(s, p, RunLen(s, p, WordSyms))

\* re.FindAllStringSubmatch(metadata, -1): leftmost matches, each search
\* resuming where the previous match ended
RECURSIVE MetaFindAll(_, _)
MetaFindNext(s, p, m) ==
    IF m = <<>> THEN MetaFindAll(s, p + 1)
    ELSE <<m>> \o MetaFindAll(s, m[3])
MetaFindAll(s, p) ==
    IF p > Len(s) THEN <<>> ELSE MetaFindNext(s, p, MetaMatchAt(s, p))

\* metaDataMap[key]: the last match with that key, "" when there is none
MapGet(matches, key) ==
    LET hits == {i \in 1..Len(matches) : matches[i][1] = key}
    IN  IF hits = {} THEN <<>> ELSE matches[Max(hits)][2]

\* strconv.Atoi: an optional sign, then one or more decimal digits.  The
\* result is <<ok, value>>; digit strings of the model stay far below 2^63.
RECURSIVE DecVal(_)
DecVal(s) ==
    IF s = <<>> THEN 0
    ELSE 10 * DecVal(Slice(s, 1, Len(s) - 1)) + DigitVal(s[Len(s)])
Signed(s) == Len(s) >= 1 /\ s[1] \in {"+", "-"}
AtoiDigits(neg, d) ==
    IF d = <<>> \/ \E i \in 1..Len(d) : d[i] \notin Digits
    THEN <<FALSE, 0>>
    ELSE <<TRUE, IF neg THEN 0 - DecVal(d) ELSE DecVal(d)>>
Atoi(s) ==
    IF Signed(s) THEN AtoiDigits(s[1] = "-", Slice(s, 2, Len(s)))
    ELSE AtoiDigits(FALSE, s)

\* the fallback rank of parseMetaData
DefaultOrder == 9999

\* order, err := strconv.Atoi(orderStr); if err != nil { order = 9999 }
\* variant: a failed conversion leaves the zero value
OrderFromZero(r) == IF r[1] THEN r[2] ELSE 0
OrderFrom(r) == IF r[1] THEN r[2] ELSE DefaultOrder
OrderOf(orderStr) == OrderFrom(Atoi(orderStr))

\* the fields parseMetaData reads from metaDataMap
MetaFields(matches) ==
        [Title |-> MapGet(matches, <<"Title">>),
         Slug |-> MapGet(matches, <<"Slug">>),
         Parent |-> MapGet(matches, <<"Parent">>),
         Description |-> MapGet(matches, <<"Description">>),
         Order |-> OrderOf(MapGet(matches, <<"Order">>)),
         MetaDescription |-> MapGet(matches, <<"MetaDescription">>),
         MetaPropertyTitle |-> MapGet(matches, <<"MetaPropertyTitle">>),
         MetaPropertyDescription |->
             MapGet(matches, <<"MetaPropertyDescription">>),
         MetaOgURL |-> MapGet(matches, <<"MetaOgURL">>)]

parseMetaData(metadata) == MetaFields(MetaFindAll(metadata, 1))

\* (?m)^##\s+(.*) tried at position p: <<header, end>> or <<>>.  v is where
\* the header text starts (after \s+, which crosses line feeds), n its length
HeaderText(s, v, n) == <<Slice(s, v, v + n - 1), v + n>>
HeaderAfterMarks(s, p, r) ==
    IF r = 0 THEN <<>>
    ELSE HeaderText(s, p + 2 + r, RunLen(s, p + 2 + r, Dot(s)))
HeaderMatchAt(s, p) ==
    IF ~LineStart(s, p) \/ p + 1 > Len(s) THEN <<>>
    ELSE IF s[p] # "#" \/ s[p + 1] # "#" THEN <<>>
    ELSE HeaderAfterMarks(s, p, RunLen(s, p + 2, SpaceSyms))

RECURSIVE HeaderFindAll(_, _)
HeaderFindNext(s, p, m) ==
    IF m = <<>> THEN HeaderFindAll(s, p + 1)
    ELSE <<m[1]>> \o HeaderFindAll(s, m[2])
HeaderFindAll(s, p) ==
    IF p > Len(s) THEN <<>> ELSE HeaderFindNext(s, p, HeaderMatchAt(s, p))

extractHeaders(content) == HeaderFindAll(content, 1)

\* The markdown renderer is an external library: the rendering of a body is
\* kept as a term over the body it was computed from.
mdToHTML(md) == <<"html", md>>

EmptyPost ==
    [Title |-> <<>>, Slug |-> <<>>, Parent |-> <<>>, Description |-> <<>>,
     Content |-> <<>>, Headers |-> <<>>, Order |-> 0,
     MetaDescription |-> <<>>, MetaPropertyTitle |-> <<>>,
     MetaPropertyDescription |-> <<>>, MetaOgURL |-> <<>>]

\* parseMarkdownFile: [err, post, metadata, mdContent]; metadata and mdContent
\* are the two blocks after the carriage returns are removed
BlogPost(m, htmlContent, headers) ==
    [Title |-> m.Title, Slug |-> m.Slug, Parent |-> m.Parent,
     Description |-> m.Description, Content |-> htmlContent,
     Headers |-> headers, Order |-> m.Order,
     MetaDescription |-> m.MetaDescription,
     MetaPropertyTitle |-> m.MetaPropertyTitle,
     MetaPropertyDescription |-> m.MetaPropertyDescription,
     MetaOgURL |-> m.MetaOgURL]
ParseBlocks(metadata, mdContent) ==
    [err |-> "nil",
     post |-> BlogPost(parseMetaData(metadata), mdToHTML(mdContent),
                       extractHeaders(mdContent)),
     metadata |-> metadata, mdContent |-> mdContent]
ParseSections(sections) ==
    IF Len(sections) < 2
    THEN [err |-> "invalid markdown format", post |-> EmptyPost,
          metadata |-> <<>>, mdContent |-> <<>>]
    ELSE ParseBlocks(StripCR(sections[1]), StripCR(sections[2]))
parseMarkdownFile(content) == ParseSections(SplitN2(content))

\* ------------------------------------------------------- the content directory
\* File names in the order os.ReadDir lists them (sorted by file name):
\* index.md, notes.txt, p1.md, p2.md, ...
PageBase == <<"p1", "p2", "p3", "p4", "p5">>
IndexName == <<"index", ".md">>
NotesName == <<"notes", ".txt">>
PageName(k) == <<PageBase[k], ".md">>
NameOrder(n) == <<IndexName, NotesName>> \o [k \in 1..n |-> PageName(k)]

\* A file is absent, or present and unreadable, or present with its bytes.
Absent == [state |-> "absent", content |-> <<>>]
Unreadable == [state |-> "unreadable", content |-> <<>>]
File(c) == [state |-> "file", content |-> c]

\* One front-matter line per present key, then the delimiter and the body.
Line(key, val) == IF val = <<"-">> THEN <<>> ELSE <<key, ":", " ">> \o val \o <<LF>>
MkDoc(title, slug, parent, order, body) ==
    Line("Title", title) \o Line("Slug", slug) \o Line("Parent", parent)
        \o Line("Order", order) \o <<"-", "-", "-", LF>> \o body
NoKey == <<"-">>
NoDelimDoc == <<"Title", ":", " ", "x", LF, "t">>
PlainBody == <<"t", LF>>
HeadBody == <<"#", "#", " ", "h", CR, LF, "-", "-", "-", LF>>
IndexDoc == MkDoc(<<"t">>, NoKey, NoKey, NoKey, PlainBody)

\* ------------------------------------------------------------------- state
VARIABLES
    dirOK,        \* whether os.ReadDir("./markdown") succeeds
    fs,           \* the files of ./markdown, by name
    names,        \* the names os.ReadDir lists, in its order
    pc,           \* where main is
    sbPosts,      \* posts of loadSidebarData (line 280)
    sidebarData,  \* main's sidebarData.Categories (line 53)
    posts,        \* main's posts (line 73)
    routes,       \* the registered page routes: <<path, localPost>>
    err,          \* the error main stopped on
    resp,         \* the last response written
    changes,      \* number of changes made to the directory so far
    raw,          \* argument of a parser applied on its own
    out           \* its result

vars == <<dirOK, fs, names, pc, sbPosts, sidebarData, posts, routes, err,
          resp, changes, raw, out>>

\* ------------------------------------------------------------ corpus loader
\* os.ReadDir: the entries that exist, sorted by file name
ReadDir(f, ns) == SelectSeq(ns, LAMBDA n : f[n].state # "absent")

\* the loop of loadMarkdownPosts from entry i on, with the posts so far
RECURSIVE LoadFrom(_, _, _, _)
\* variant: a file that does not parse is skipped and the load goes on
LoadParsedSkip(f, files, i, acc, r) ==
    IF r.err # "nil" THEN LoadFrom(f, files, i + 1, acc)
    ELSE LoadFrom(f, files, i + 1, Append(acc, r.post))
LoadParsed(f, files, i, acc, r) ==
    IF r.err # "nil" THEN [posts |-> <<>>, err |-> r.err]
    ELSE LoadFrom(f, files, i + 1, Append(acc, r.post))
LoadFrom(f, files, i, acc) ==
    IF i > Len(files) THEN [posts |-> acc, err |-> "nil"]
    ELSE IF ~HasSuffixMd(files[i]) THEN LoadFrom(f, files, i + 1, acc)
    ELSE IF f[files[i]].state # "file"
         THEN [posts |-> <<>>, err |-> "read file"]
    ELSE LoadParsed(f, files, i, acc, parseMarkdownFile(f[files[i]].content))

loadMarkdownPosts(ok, f, ns) ==
    IF ~ok THEN [posts |-> <<>>, err |-> "read dir"]
    ELSE LoadFrom(f, ReadDir(f, ns), 1, <<>>)

\* ------------------------------------------------------------ sidebar builder
\* the loop over posts of loadSidebarData: categoriesMap after posts i..
NewCategory(post) ==
    [Name |-> post.Parent, Pages |-> <<post>>, Order |-> post.Order]
\* variant: every page of a category overwrites the category's rank
AddPostLastWins(m, post) ==
    IF post.Parent = <<>> THEN m
    ELSE IF post.Parent \notin DOMAIN m
    THEN [k \in DOMAIN m \cup {post.Parent} |->
             IF k = post.Parent THEN NewCategory(post) ELSE m[k]]
    ELSE [m EXCEPT ![post.Parent].Pages = Append(@, post),
                   ![post.Parent].Order = post.Order]
\* variant: pages without a category are grouped under the empty name
AddPostNoGuard(m, post) ==
    IF post.Parent \notin DOMAIN m
    THEN [k \in DOMAIN m \cup {post.Parent} |->
             IF k = post.Parent THEN NewCategory(post) ELSE m[k]]
    ELSE [m EXCEPT ![post.Parent].Pages = Append(@, post)]
AddPost(m, post) ==
    IF post.Parent = <<>> THEN m
    ELSE IF post.Parent \notin DOMAIN m
    THEN [k \in DOMAIN m \cup {post.Parent} |->
             IF k = post.Parent THEN NewCategory(post) ELSE m[k]]
    ELSE [m EXCEPT ![post.Parent].Pages = Append(@, post)]
RECURSIVE GroupFrom(_, _, _)
GroupFrom(ps, i, m) ==
    IF i > Len(ps) THEN m ELSE GroupFrom(ps, i + 1, AddPost(m, ps[i]))

EmptyMap == [k \in {} |-> 0]
categoriesMap(ps) == GroupFrom(ps, 1, EmptyMap)

Injective(q) == \A i, j \in DOMAIN q : q[i] = q[j] => i = j
Orderings(n) == {q \in [1..n -> 1..n] : Injective(q)}

\* "convert map to slice": ranging over a map visits the keys in an
\* unspecified order, so every listing of the values can come out
MapToSlices(m) ==
    {[i \in 1..Cardinality(DOMAIN m) |-> m[ks[i]]] :
        ks \in {q \in [1..Cardinality(DOMAIN m) -> DOMAIN m] : Injective(q)}}

\* the less function given to sort.Slice
Less(a, b) == a.Order < b.Order

\* sort.Slice: the slice reordered so that no element is less than one before
\* it; the order of elements that are not less than each other is not kept
SortSlice(s) ==
    {[i \in 1..Len(s) |-> s[q[i]]] :
        q \in {o \in Orderings(Len(s)) :
                 \A i, j \in 1..Len(s) : i < j => ~Less(s[o[j]], s[o[i]])}}

\* loadSidebarData: the set of results the call can return
SidebarOf(l) ==
    IF l.err # "nil"
    THEN {[Categories |-> <<>>, err |-> l.err, posts |-> l.posts]}
    ELSE {[Categories |-> c, err |-> "nil", posts |-> l.posts] :
            c \in UNION {SortSlice(s) :
                           s \in MapToSlices(categoriesMap(l.posts))}}
loadSidebarData(ok, f, ns) == SidebarOf(loadMarkdownPosts(ok, f, ns))

\* ------------------------------------------------------------------ routing
\* the loop of main over posts from post i on, with the routes registered so
\* far; the router panics when a path is registered a second time
Paths(rs) == {rs[i][1] : i \in 1..Len(rs)}
RoutePath(post) == <<"/">> \o post.Slug
RECURSIVE RegisterFrom(_, _, _)
\* variant: a route is registered for every post, with or without a slug
RegisterPostAll(ps, i, rs, localPost) ==
    IF RoutePath(localPost) \in Paths(rs)
    THEN [routes |-> rs, panic |-> TRUE]
    ELSE RegisterFrom(ps, i + 1,
                      Append(rs, <<RoutePath(localPost), localPost>>))
RegisterPost(ps, i, rs, localPost) ==
    IF localPost.Slug = <<>> THEN RegisterFrom(ps, i + 1, rs)
    ELSE IF RoutePath(localPost) \in Paths(rs)
    THEN [routes |-> rs, panic |-> TRUE]
    ELSE RegisterFrom(ps, i + 1,
                      Append(rs, <<RoutePath(localPost), localPost>>))
RegisterFrom(ps, i, rs) ==
    IF i > Len(ps) THEN [routes |-> rs, panic |-> FALSE]
    ELSE RegisterPost(ps, i, rs, ps[i])

NoResp ==
    [path |-> <<>>, status |-> 0, template |-> "", Title |-> <<>>,
     Content |-> <<>>, Headers |-> <<>>, CurrentSlug |-> <<>>,
     SidebarData |-> <<>>, readFile |-> FALSE]

\* the handler of GET "/": reads and parses ./markdown/index.md
InternalError ==
    [NoResp EXCEPT !.path = <<"/">>, !.status = 500, !.readFile = TRUE]
HomeParsed(r, sb) ==
    IF r.err # "nil" THEN InternalError
    ELSE [path |-> <<"/">>, status |-> 200, template |-> "index.html",
          Title |-> r.post.Title, Content |-> r.post.Content,
          Headers |-> r.post.Headers, CurrentSlug |-> r.post.Slug,
          SidebarData |-> sb, readFile |-> TRUE]
HomeHandler(f, sb) ==
    IF f[IndexName].state # "file" THEN InternalError
    ELSE HomeParsed(parseMarkdownFile(f[IndexName].content), sb)

\* the handler registered for a post: renders the post it captured
PostHandler(path, localPost, sb) ==
    [path |-> path, status |-> 200, template |-> "layout.html",
     Title |-> localPost.Title, Content |-> localPost.Content,
     Headers |-> localPost.Headers, CurrentSlug |-> localPost.Slug,
     SidebarData |-> sb, readFile |-> FALSE]

NoRouteHandler(path) ==
    [NoResp EXCEPT !.path = path, !.status = 404, !.template = "404.html",
                   !.Title = <<"Page Not Found">>]

\* variant: a page route parses the first page file again on every request
ServeLive(path, rs, f, sb) ==
    IF path = <<"/">> THEN HomeHandler(f, sb)
    ELSE IF path \in Paths(rs)
    THEN PostHandler(path, parseMarkdownFile(f[PageName(1)].content).post, sb)
    ELSE NoRouteHandler(path)

\* the response of the running server to GET path
Serve(path, rs, f, sb) ==
    IF path = <<"/">> THEN HomeHandler(f, sb)
    ELSE IF path \in Paths(rs)
    THEN PostHandler(path, rs[CHOOSE i \in 1..Len(rs) : rs[i][1] = path][2],
                     sb)
    ELSE NoRouteHandler(path)

\* ------------------------------------------------------------------ actions
NotParsed == [done |-> FALSE]

\* main, line 53: sidebarData, err := loadSidebarData("./markdown")
LoadSidebar ==
    /\ pc = "start"
    /\ \E r \in loadSidebarData(dirOK, fs, names) :
          /\ sidebarData' = r.Categories
          /\ sbPosts' = r.posts
          /\ err' = r.err
          /\ pc' = IF r.err # "nil" THEN "fatal" ELSE "sidebarLoaded"
    /\ UNCHANGED <<dirOK, fs, names, posts, routes, resp, changes, raw, out>>

\* main, line 73: posts, err := loadMarkdownPosts("./markdown")
LoadPosts ==
    /\ pc = "sidebarLoaded"
    /\ \E l \in {loadMarkdownPosts(dirOK, fs, names)} :
          /\ posts' = l.posts
          /\ err' = l.err
          /\ pc' = IF l.err # "nil" THEN "fatal" ELSE "postsLoaded"
    /\ UNCHANGED <<dirOK, fs, names, sbPosts, sidebarData, routes, resp,
                   changes, raw, out>>

\* main, lines 112-142: one route per post with a slug, then r.Run()
RegisterRoutes ==
    /\ pc = "postsLoaded"
    /\ \E g \in {RegisterFrom(posts, 1, <<>>)} :
          /\ routes' = g.routes
          /\ pc' = IF g.panic THEN "panicked" ELSE "serving"
    /\ UNCHANGED <<dirOK, fs, names, sbPosts, sidebarData, posts, err, resp,
                   changes, raw, out>>

\* a request handled by the running server
RequestPaths == {<<"/">>, <<"/", "s1">>, <<"/", "x">>}
Request ==
    /\ pc = "serving"
    /\ \E path \in RequestPaths : resp' = Serve(path, routes, fs, sidebarData)
    /\ UNCHANGED <<dirOK, fs, names, pc, sbPosts, sidebarData, posts, routes,
                   err, changes, raw, out>>

\* the content a file of the directory can be given while the process lives
IndexStates ==
    {Absent, File(NoDelimDoc), File(IndexDoc),
     File(MkDoc(<<"x">>, NoKey, NoKey, NoKey, HeadBody))}
PageStates ==
    {Absent, Unreadable,
     File(MkDoc(<<"t">>, <<"s1">>, <<"A">>, <<"1">>, HeadBody)),
     File(MkDoc(<<"v">>, <<"s2">>, <<"A">>, <<"5">>, PlainBody)),
     File(MkDoc(<<"t">>, NoKey, <<"B">>, NoKey, PlainBody)),
     File(MkDoc(<<"x">>, <<"s1">>, NoKey, <<"5">>, PlainBody))}
StatesOf(n) == IF n = IndexName THEN IndexStates
               ELSE IF n = NotesName THEN {File(NoDelimDoc)}
               ELSE PageStates

\* somebody edits, adds or removes a file of ./markdown
FsChange ==
    /\ pc \in {"start", "sidebarLoaded", "postsLoaded", "serving"}
    /\ changes < MaxChanges
    /\ \E k \in 1..Len(names) : \E st \in StatesOf(names[k]) :
          /\ st # fs[names[k]]
          /\ fs' = [fs EXCEPT ![names[k]] = st]
    /\ changes' = changes + 1
    /\ UNCHANGED <<dirOK, names, pc, sbPosts, sidebarData, posts, routes,
                   err, resp, raw, out>>

Names(n) == {NameOrder(n)[k] : k \in 1..Len(NameOrder(n))}

\* ./markdown with index.md, notes.txt (not a page) and the page files
Directory(n, index, pages) ==
    [m \in Names(n) |->
        IF m = IndexName THEN index
        ELSE IF m = NotesName THEN File(NoDelimDoc)
        ELSE pages[CHOOSE k \in 1..n : PageName(k) = m]]

Init ==
    /\ dirOK = TRUE
    /\ names = NameOrder(MaxPages)
    /\ \E pages \in [1..MaxPages -> PageStates] :
          fs = Directory(MaxPages, File(IndexDoc), pages)
    /\ pc = "start"
    /\ sbPosts = <<>> /\ sidebarData = <<>> /\ posts = <<>> /\ routes = <<>>
    /\ err = "nil" /\ resp = NoResp /\ changes = 0
    /\ raw = <<>> /\ out = NotParsed

Next == LoadSidebar \/ LoadPosts \/ RegisterRoutes \/ Request \/ FsChange

Spec == Init /\ [][Next]_vars

\* ------------------------------------------- the loader and sidebar on their own
\* Every directory of MaxFiles page files over these contents, index.md being
\* a page without category; nothing changes the directory while it is loaded.
\* A directory that cannot be listed is taken with no page files in it.
NavOrders == {NoKey, <<"1">>, <<"5">>, <<"x">>, <<"1", "0", "0", "0", "0">>}
NoCategory == [parent |-> NoKey, order |-> NoKey]
NavDocs ==
    {[parent |-> <<"A">>, order |-> ord] : ord \in NavOrders}
        \cup {[parent |-> <<"B">>, order |-> ord] :
                 ord \in NavOrders \ {NoKey, <<"x">>}}
        \cup {[parent |-> <<"C">>, order |-> <<"5">>], NoCategory}
NavDoc(d) == MkDoc(NoKey, NoKey, d.parent, d.order, PlainBody)
NavStates ==
    {Absent, Unreadable, File(NoDelimDoc)} \cup {File(NavDoc(d)) : d \in NavDocs}

InitNav ==
    /\ names = NameOrder(MaxFiles)
    /\ \E ok \in BOOLEAN, pages \in [1..MaxFiles -> NavStates] :
          /\ ok \/ \A k \in 1..MaxFiles : pages[k] = Absent
          /\ dirOK = ok
          /\ fs = Directory(MaxFiles, File(NavDoc(NoCategory)), pages)
    /\ pc = "start"
    /\ sbPosts = <<>> /\ sidebarData = <<>> /\ posts = <<>> /\ routes = <<>>
    /\ err = "nil" /\ resp = NoResp /\ changes = 0
    /\ raw = <<>> /\ out = NotParsed

NextNav == LoadSidebar \/ LoadPosts

SpecNav == InitNav /\ [][NextNav]_vars

\* --------------------------------------------------- the parsers on their own
Strings(S, n) == UNION {[1..k -> S] : k \in 0..n}
NoFiles == [n \in Names(0) |-> Absent]

InitParser(inputs) ==
    /\ raw \in inputs /\ out = NotParsed
    /\ dirOK = TRUE /\ names = NameOrder(0) /\ fs = NoFiles
    /\ pc = "parser"
    /\ sbPosts = <<>> /\ sidebarData = <<>> /\ posts = <<>> /\ routes = <<>>
    /\ err = "nil" /\ resp = NoResp /\ changes = 0

\* post, err := parseMarkdownFile(raw)
ParseFile ==
    /\ pc = "parser" /\ ~out.done
    /\ out' = [done |-> TRUE, r |-> parseMarkdownFile(raw)]
    /\ UNCHANGED <<dirOK, fs, names, pc, sbPosts, sidebarData, posts, routes,
                   err, resp, changes, raw>>

\* parseMetaData(raw)
ParseMeta ==
    /\ pc = "parser" /\ ~out.done
    /\ out' = [done |-> TRUE, r |-> parseMetaData(raw)]
    /\ UNCHANGED <<dirOK, fs, names, pc, sbPosts, sidebarData, posts, routes,
                   err, resp, changes, raw>>

SplitAlphabet == {"-", CR, LF, "x"}
InitSplit == InitParser(Strings(SplitAlphabet, MaxLen))
SpecSplit == InitSplit /\ [][ParseFile]_vars

MetaAlphabet == {"Title", "Slug", ":", " ", LF, "v"}
InitMeta == InitParser(Strings(MetaAlphabet, MaxMetaLen))
SpecMeta == InitMeta /\ [][ParseMeta]_vars

\* =================================================================== claims
Loaded == pc \in {"sidebarLoaded", "postsLoaded"}
Delim(c) == {i \in 1..Len(c) : i + 2 <= Len(c) /\ c[i] = "-"
                               /\ c[i + 1] = "-" /\ c[i + 2] = "-"}
\* the .md files of the directory, in listing order
Eligible == SelectSeq(names, LAMBDA n : fs[n].state # "absent"
                                        /\ n[Len(n)] = ".md")
\* position in the corpus of the first page declaring category name
FirstIndex(name) ==
    Min({i \in 1..Len(sbPosts) : sbPosts[i].Parent = name})
PagesOf(name) == SelectSeq(sbPosts, LAMBDA p : p.Parent = name)

\* C1: the categories of the sidebar are ascending by rank, and categories of
\* equal rank keep the order in which they were first discovered in the corpus.
C1_StableRankOrder ==
    Loaded =>
        \A i, j \in 1..Len(sidebarData) :
            i < j =>
                \/ sidebarData[i].Order < sidebarData[j].Order
                \/ /\ sidebarData[i].Order = sidebarData[j].Order
                   /\ FirstIndex(sidebarData[i].Name)
                          < FirstIndex(sidebarData[j].Name)

\* C2: a category's rank is the rank of the first page of the corpus that
\* declares it; the later pages of the category are among its pages and leave
\* the rank as it is.
C2_FirstPageFixesRank ==
    Loaded =>
        \A i \in 1..Len(sidebarData) :
            /\ sidebarData[i].Order
                   = sbPosts[FirstIndex(sidebarData[i].Name)].Order
            /\ Len(sidebarData[i].Pages)
                   = Len(PagesOf(sidebarData[i].Name))

C2_Witness ==
    /\ Loaded
    /\ \E i \in 1..Len(sidebarData) :
          /\ Len(sidebarData[i].Pages) >= 2
          /\ sidebarData[i].Pages[2].Order # sidebarData[i].Order
          /\ sidebarData[i].Pages[1].Order = sidebarData[i].Order

\* C3: the sidebar partitions the pages that have a category: category names
\* are pairwise distinct and never empty, a category holds exactly the pages
\* naming it, in corpus order, and every page with a category is in one.
C3_Partition ==
    Loaded =>
        /\ \A i, j \in 1..Len(sidebarData) :
              sidebarData[i].Name = sidebarData[j].Name => i = j
        /\ \A i \in 1..Len(sidebarData) :
              /\ sidebarData[i].Name # <<>>
              /\ sidebarData[i].Pages = PagesOf(sidebarData[i].Name)
        /\ \A k \in 1..Len(sbPosts) :
              sbPosts[k].Parent # <<>> =>
                  \E i \in 1..Len(sidebarData) :
                      sidebarData[i].Name = sbPosts[k].Parent

C3_Witness ==
    /\ Loaded
    /\ Len(sidebarData) >= 2
    /\ \E i \in 1..Len(sidebarData) : Len(sidebarData[i].Pages) >= 2
    /\ \E k \in 1..Len(sbPosts) : sbPosts[k].Parent = <<>>

\* C4: loading is all or nothing.  When the directory cannot be listed, or an
\* .md file cannot be read or has no --- in it, the load fails and returns no
\* page; otherwise it returns one page per .md file, in listing order, other
\* files being skipped and equal pages kept.
BadCorpus ==
    \/ ~dirOK
    \/ \E k \in 1..Len(Eligible) :
          \/ fs[Eligible[k]].state = "unreadable"
          \/ Delim(fs[Eligible[k]].content) = {}
ExpectedPosts ==
    [k \in 1..Len(Eligible) |->
        parseMarkdownFile(fs[Eligible[k]].content).post]
C4_AllOrNothing ==
    /\ pc = "fatal" =>
          /\ BadCorpus /\ err # "nil"
          /\ sbPosts = <<>> /\ posts = <<>> /\ sidebarData = <<>>
    /\ (pc # "start" /\ BadCorpus) => pc = "fatal"
    /\ Loaded => sbPosts = ExpectedPosts
    /\ pc = "postsLoaded" => posts = ExpectedPosts

C4_Witness ==
    /\ pc = "fatal" /\ dirOK /\ sbPosts = <<>>
    /\ fs[PageName(1)].state = "file" /\ Delim(fs[PageName(1)].content) # {}
    /\ fs[PageName(2)].state = "file" /\ Delim(fs[PageName(2)].content) = {}

\* C5: a document containing --- always parses, and is split at the first
\* --- into two blocks with metadata + --- + body = the document without its
\* carriage returns; later --- stay in the body.
NoCR(s) == SelectSeq(s, LAMBDA c : c # CR)
C5_SplitRoundTrip ==
    (out.done /\ Delim(raw) # {}) =>
        /\ out.r.err = "nil"
        /\ out.r.metadata \o <<"-", "-", "-">> \o out.r.mdContent = NoCR(raw)
        /\ Len(out.r.metadata)
               = Cardinality({j \in 1..(Min(Delim(raw)) - 1) : raw[j] # CR})

C5_Witness ==
    /\ out.done /\ out.r.err = "nil"
    /\ Cardinality(Delim(raw)) >= 2
    /\ \E j \in 1..Len(raw) : raw[j] = CR /\ j < Min(Delim(raw))
    /\ \E j \in 1..Len(raw) : raw[j] = CR /\ j > Min(Delim(raw))

\* C6 as stated: a document whose Order is missing or not a number gets rank
\* 9999 without error, and a category ranked by such a document comes after
\* every category ranked by a document with a numeric Order.
\* the document has a line "Order: " followed by decimal digits only
NumericOrder(c) ==
    \E p \in 1..Len(c) :
        /\ p + 3 <= Len(c)
        /\ c[p] = "Order" /\ c[p + 1] = ":" /\ c[p + 2] = " "
        /\ \E e \in (p + 4)..Len(c) :
              /\ c[e] = LF
              /\ \A q \in (p + 3)..(e - 1) : c[q] \in {"0", "1", "5", "9"}
\* the corpus page k comes from a document with a numeric Order
Numeric(k) == NumericOrder(fs[Eligible[k]].content)
RankedBy(i) == FirstIndex(sidebarData[i].Name)
C6_FallbackRank ==
    \A k \in 1..Len(sbPosts) : ~Numeric(k) => sbPosts[k].Order = 9999
C6_Original ==
    Loaded =>
        /\ C6_FallbackRank
        /\ \A i, j \in 1..Len(sidebarData) :
              (~Numeric(RankedBy(i)) /\ Numeric(RankedBy(j))) => j < i

\* C6 amended: ... comes after every category whose rank is below 9999.
C6_Amended ==
    Loaded =>
        /\ C6_FallbackRank
        /\ \A i, j \in 1..Len(sidebarData) :
              (sidebarData[j].Order < 9999 /\ ~Numeric(RankedBy(i))) => j < i

C6_Witness ==
    /\ Loaded
    /\ \E i, j \in 1..Len(sidebarData) :
          /\ ~Numeric(RankedBy(i)) /\ sidebarData[i].Order = 9999
          /\ Numeric(RankedBy(j)) /\ sidebarData[j].Order < 9999
          /\ j < i

\* C7: once the server runs, the page routes are exactly the loaded pages with
\* a slug, each served at /<slug> with its own title, body and headings; a
\* page without a slug has no route, is still in the loaded corpus and in the
\* sidebar when it has a category, and does not make the load fail.
Slugged == {i \in 1..Len(posts) : posts[i].Slug # <<>>}
NoSlugLine(c) == \A i \in 1..Len(c) : c[i] # "Slug"
C7_RoutesForSlugs ==
    /\ pc = "serving" =>
          /\ Paths(routes) = {<<"/">> \o posts[i].Slug : i \in Slugged}
          /\ Len(routes) = Cardinality(Slugged)
          /\ \A i \in Slugged :
                \E r \in {Serve(<<"/">> \o posts[i].Slug, routes, fs,
                                sidebarData)} :
                    /\ r.status = 200
                    /\ r.Title = posts[i].Title
                    /\ r.Content = posts[i].Content
                    /\ r.Headers = posts[i].Headers
          /\ \A k \in 1..Len(sbPosts) :
                sbPosts[k].Parent # <<>> =>
                    \E i \in 1..Len(sidebarData) :
                        \E n \in 1..Len(sidebarData[i].Pages) :
                            sidebarData[i].Pages[n] = sbPosts[k]
    /\ (changes = 0 /\ pc \in {"postsLoaded", "serving", "panicked"}) =>
          /\ Len(posts) = Len(Eligible)
          /\ \A k \in 1..Len(Eligible) :
                NoSlugLine(fs[Eligible[k]].content) => posts[k].Slug = <<>>
    /\ (changes = 0 /\ pc = "fatal") =>
          \E k \in 1..Len(Eligible) :
              \/ fs[Eligible[k]].state = "unreadable"
              \/ Delim(fs[Eligible[k]].content) = {}

C7_Witness ==
    /\ pc = "serving"
    /\ \E i \in 1..Len(posts) :
          /\ posts[i].Slug = <<>> /\ posts[i].Parent # <<>>
          /\ \E c \in 1..Len(sidebarData) : sidebarData[c].Pages = <<posts[i]>>
    /\ \E j \in Slugged :
          /\ resp.path = <<"/">> \o posts[j].Slug
          /\ resp.status = 200 /\ resp.Headers = posts[j].Headers
          /\ resp.Headers # <<>>

\* C8 as stated: once the server runs no request reads or parses a file, none
\* fails on a file, and no response depends on the directory as it is now.
\* the responses to the paths do not depend on what any one file holds now
SameAfterChange(paths) ==
    \A path \in paths : \A k \in 1..Len(names) : \A st \in StatesOf(names[k]) :
        Serve(path, routes, [fs EXCEPT ![names[k]] = st], sidebarData)
            = Serve(path, routes, fs, sidebarData)
C8_Original ==
    /\ resp.status # 0 => (~resp.readFile /\ resp.status # 500)
    /\ pc = "serving" => SameAfterChange(RequestPaths)

\* C8 amended: that holds of every path but "/": the handler of "/" reads and
\* parses index.md on each request.
PagePaths == RequestPaths \ {<<"/">>}
C8_Amended ==
    /\ (resp.status # 0 /\ resp.path # <<"/">>) =>
          (~resp.readFile /\ resp.status \in {200, 404})
    /\ (resp.status # 0 /\ resp.path = <<"/">>) => resp.readFile
    /\ pc = "serving" => SameAfterChange(PagePaths)

C8_Witness ==
    /\ pc = "serving" /\ changes >= 1
    /\ resp.path = <<"/", "s1">> /\ resp.status = 200
    /\ \A k \in 1..Len(names) :
          \A i \in 1..Len(fs[names[k]].content) :
              fs[names[k]].content[i] # "s1"

\* C9: parseMetaData is line oriented: the value of a key is the rest of the
\* last line "Key: rest", without the blanks after the colon, and holds text
\* of that line only; it is empty when that rest is empty or blank and when
\* no line has the key.
LineEnd(s, p) == Min({q \in p..(Len(s) + 1) : q = Len(s) + 1 \/ s[q] = LF})
KeyLines(s, key) ==
    {p \in 1..Len(s) : /\ p = 1 \/ s[p - 1] = LF
                       /\ p + 1 <= Len(s) /\ s[p] = key /\ s[p + 1] = ":"}
Rest(s, p) ==
    Slice(s, Min({q \in (p + 2)..LineEnd(s, p) :
                     q = LineEnd(s, p) \/ s[q] # " "}),
          LineEnd(s, p) - 1)
LineValue(s, key) ==
    IF KeyLines(s, key) = {} THEN <<>> ELSE Rest(s, Max(KeyLines(s, key)))
C9_LineOriented ==
    out.done =>
        /\ out.r.Title = LineValue(raw, "Title")
        /\ out.r.Slug = LineValue(raw, "Slug")

\* C10: whenever the server runs, every page the sidebar lists with a slug
\* has a route that renders that very page.
C10_SidebarPagesRouted ==
    pc = "serving" =>
        \A i \in 1..Len(sidebarData) :
            \A n \in 1..Len(sidebarData[i].Pages) :
                sidebarData[i].Pages[n].Slug # <<>> =>
                    \E r \in 1..Len(routes) :
                        routes[r] = <<<<"/">> \o sidebarData[i].Pages[n].Slug,
                                      sidebarData[i].Pages[n]>>

====
